---- MODULE Spec2Model ----
(***************************************************************************)
(* Bookstore backend: order placement, cancellation, payments, reviews,    *)
(* wishlists and registration, modelled from the service and controller    *)
(* code.  Every request handler is one atomic action (controller plus      *)
(* service); a prisma.$transaction is computed on a copy of the tables     *)
(* and committed or discarded as a whole.  Money is in integer minor       *)
(* units.                                                                  *)
(***************************************************************************)
EXTENDS Integers, Sequences, FiniteSets, TLC

\* ------------------------------------------------------------------ bounds
MaxOrders == 2
MaxItems == 2
MaxStock == 2
MaxPrice == 2
MaxPayments == 2
MaxTime == 1
MaxReviews == 2
MaxWishlists == 2
MaxAccounts == 2
MaxProfiles == 2
MaxUuid == 8
MaxAddresses == 2
MaxCartItems == 2
MaxCartQuantity == 3
MaxSnapshotOrders == 1
MaxSnapshotUuid == 5

\* if (rating < 1 || rating > 5) throw
RatingMin == 1
RatingMax == 5

\* ------------------------------------------------------------ fixed tables
\* Rows of the User, Address and Book tables that exist throughout; "ux",
\* "ax" and "bx" are ids of no row.
Users == {"u1", "u2"}
UserIDs == {"u1", "ux"}
Books == {"b1", "b2"}
BookIDs == Books \cup {"bx"}
AddressIDs == {"a1", "a2", "ax"}
Phones == {"p1"}

\* Address rows: owner and the three fields the snapshot is built from.
address ==
  [a \in {"a1", "a2"} |->
     IF a = "a1"
       THEN [userID |-> "u1", specificAddress |-> "12 Pho Hue", ward |-> "w1", city |-> "Ha Noi"]
       ELSE [userID |-> "u2", specificAddress |-> "", ward |-> "w2", city |-> "Da Nang"]]

OrderStatus == {"pending", "processing", "completed", "canceled"}
PaymentStatus == {"processing", "paid", "failed"}
PaymentMethod == {"qr_code", "credit_card", "cod"}
Role == {"user", "author", "admin"}

\* Registration requests: addresses as typed, and passwords.
Emails == {"a@x.io", "b@x.io"}
RawEmails == Emails \cup {"A@x.io", "nobody"}
Passwords == {"Passw0rd", "weak"}

\* The rate limiter: client addresses, the limit of the instance, the window
\* of 60000 ms in clock steps, and the last clock value explored.
IPs == {"ip1", "ip2"}
requestsPerMinute == 2
WindowLen == 2
MaxClock == 5

\* Token lifetimes in clock steps: 15 minutes, 1 hour, 7 days.
ACCESS_TOKEN_EXPIRY == 1
PASSWORD_RESET_EXPIRY == 2
REFRESH_TOKEN_EXPIRY == 3

\* The requests the server handles at the same time.
Procs == {1, 2}

VARIABLES
  book,        \* Book table: bookID -> [price, stockQuantity, soldNumber]
  orders,      \* Order table, in creation order; the index is the orderID
  hist,        \* per order: the Book rows just before it was created, and
               \* the books written since by anything but its own first cancel
  payments,    \* Payment table, in creation order; the index is the paymentID;
               \* paidAt is <<>> for NULL and <<t>> for the time t
  now,         \* the clock read by new Date()
  response,    \* the HTTP response of the last step: the handler, the HTTP status, the
               \* service's error, the order or payment id concerned, the
               \* number of order items processed and the request's key
  reviews,     \* Review table, in creation order
  wishlists,   \* Wishlist table, in creation order
  authentication,  \* Authentication table, in creation order
  user,        \* User rows created by registration
  author,      \* Author rows created by registration
  admin,       \* Admin rows created by registration
  cart,        \* Cart rows created by registration
  uuid,        \* the number of ids issued so far to rows that were kept
  addresses,   \* Address rows created through the user API
  cartBook,    \* CartBook table: the items of the carts
  inflight,    \* per request slot: the request whose handler has read the
               \* database and not yet written, with what it read
  attempts,    \* the Map of one authRateLimit instance, per ip: whether the
               \* Map has the key, and the times recorded under it
  admitted     \* per ip: the times of all the requests that instance let through

payVars == <<payments, now>>
socialVars == <<reviews, wishlists>>
accountVars == <<authentication, user, author, admin, cart, uuid>>
userApiVars == <<addresses, cartBook>>
limiterVars == <<attempts, admitted>>
vars == <<book, orders, hist, payments, now, response, reviews, wishlists,
          authentication, user, author, admin, cart, uuid, addresses, cartBook, inflight,
          attempts, admitted>>

\* A request slot with no request in flight.
idle == [op |-> "none"]

\* The value of response after a step that handled no request.
noResponse ==
  [op |-> "none", status |-> 0, error |-> "none", id |-> 0, n |-> 0, req |-> <<>>]

\* ---------------------------------------------------------------- helpers
\* prisma.$transaction(fn): the writes of fn are kept when it returns and
\* discarded when it throws.
transactionNoRollback(pre, post, err) == post
transaction(pre, post, err) == IF err = "none" THEN post ELSE pre

\* `${specificAddress ? specificAddress + ", " : ""}${ward}, ${city}`
addressSnapshotOf(a) ==
  (IF a.specificAddress # "" THEN <<a.specificAddress, ", ">> ELSE <<>>)
    \o <<a.ward, ", ", a.city>>

\* if (item.quantity > book.stockQuantity) throw "Not enough stock"
notEnoughStockOff(item, b) == item.quantity > b.stockQuantity + 1
notEnoughStock(item, b) == item.quantity > b.stockQuantity

\* subTotal = Number(book.price) * item.quantity and the orderBooks entry.
orderBookEntryNoQuantity(item, b) ==
  [bookID |-> item.bookID, priceAtTime |-> b.price,
   quantity |-> item.quantity, subTotal |-> b.price]
orderBookEntry(item, b) ==
  [bookID |-> item.bookID, priceAtTime |-> b.price,
   quantity |-> item.quantity, subTotal |-> b.price * item.quantity]

\* One pass of the item loop of createOrder on the transaction's view bk of
\* the Book table; acc carries totalAmount and orderBooks.  The result keeps
\* the view as it is at the throw, earlier decrements included.
RECURSIVE orderItemLoop(_, _, _)
orderItemLoop(items, bk, acc) ==
  IF items = <<>> THEN [err |-> "none", book |-> bk, acc |-> acc]
  ELSE LET item == Head(items) IN
    IF item.bookID \notin DOMAIN bk
      THEN [err |-> "Book not found", book |-> bk, acc |-> acc]
    ELSE IF notEnoughStock(item, bk[item.bookID])
      THEN [err |-> "Not enough stock", book |-> bk, acc |-> acc]
    ELSE IF item.quantity <= 0
      THEN [err |-> "Invalid quantity", book |-> bk, acc |-> acc]
    ELSE
      LET b == bk[item.bookID]
          line == orderBookEntry(item, b)
          bk2 == [bk EXCEPT ![item.bookID] =
                    [b EXCEPT !.stockQuantity = b.stockQuantity - item.quantity,
                              !.soldNumber = b.soldNumber + item.quantity]]
      IN orderItemLoop(Tail(items), bk2,
                       [totalAmount |-> acc.totalAmount + line.subTotal,
                        orderBooks |-> Append(acc.orderBooks, line)])

\* tx.user.findUnique({ where: { userID } })
userExists(userID) ==
  userID \in Users \/ \E i \in DOMAIN user : user[i].userID = userID

\* orderService.createOrder inside its transaction: the error thrown, the
\* transaction's Book table, the Order row to insert and the number n of
\* items processed before the throw or the insert.
createOrderTxOn(found, rows, userID, phone, items) ==
  IF ~found
    THEN [err |-> "User not found", book |-> book, order |-> <<>>, n |-> 0]
  ELSE IF rows = {}
    THEN [err |-> "Address not found", book |-> book, order |-> <<>>, n |-> 0]
  ELSE IF items = <<>>
    THEN [err |-> "Order must have at least one item", book |-> book, order |-> <<>>, n |-> 0]
  ELSE
    LET r == orderItemLoop(items, book, [totalAmount |-> 0, orderBooks |-> <<>>])
    IN [err |-> r.err, book |-> r.book, n |-> Len(r.acc.orderBooks),
        order |-> IF r.err # "none" THEN <<>>
                  ELSE << [userID |-> userID, status |-> "pending",
                           totalAmount |-> r.acc.totalAmount,
                           addressSnapshot |-> addressSnapshotOf(CHOOSE a \in rows : TRUE),
                           phoneSnapshot |-> phone,
                           books |-> r.acc.orderBooks] >>]

\* The same for the users and addresses the tables are seeded with:
\* user.addresses.find((addr) => addr.addressID === addressID)
createOrderTx(userID, addressID, phone, items) ==
  createOrderTxOn(userExists(userID),
                  {address[a] : a \in {x \in DOMAIN address :
                                         x = addressID /\ address[x].userID = userID}},
                  userID, phone, items)

\* controllers/orderController createOrder: error message -> HTTP status.
createOrderStatus(err) ==
  CASE err = "none" -> 201
    [] err \in {"User not found", "Address not found", "Book not found"} -> 404
    [] err \in {"Not enough stock", "Order must have at least one item",
                "Items must be a non-empty array"} -> 400
    [] OTHER -> 500

booksOf(o) == {o.books[i].bookID : i \in DOMAIN o.books}

ItemLists ==
  UNION {[1..n -> [bookID : BookIDs, quantity : 0..MaxStock]] : n \in 0..MaxItems}

\* ----------------------------------------------------------------- actions
\* A few requests that succeed while stock lasts: one copy, every copy, and
\* one copy of each of two books.
FewItemLists ==
  { <<[bookID |-> "b1", quantity |-> 1]>>,
    <<[bookID |-> "b2", quantity |-> MaxStock]>>,
    <<[bookID |-> "b1", quantity |-> 1], [bookID |-> "b2", quantity |-> 1]>> }

\* orderService.createOrder behind its controller, for requests drawn from
\* the given sets.
createOrderWith(userIDs, addressIDs, itemLists) ==
  /\ Len(orders) < MaxOrders
  /\ \E userID \in userIDs, addressID \in addressIDs, phone \in Phones, items \in itemLists :
       LET tx == IF items = <<>>  \* the controller's own check
                   THEN [err |-> "Items must be a non-empty array", book |-> book,
                         order |-> <<>>, n |-> 0]
                   ELSE createOrderTx(userID, addressID, phone, items)
           newBook == transaction(book, tx.book, tx.err)
           newOrders == transaction(orders, orders \o tx.order, tx.err)
       IN /\ book' = newBook
          /\ orders' = newOrders
          /\ response' = [op |-> "createOrder", status |-> createOrderStatus(tx.err),
                          error |-> tx.err, id |-> Len(newOrders), n |-> tx.n, req |-> <<>>]
          /\ UNCHANGED <<limiterVars, inflight, userApiVars, payVars, socialVars, accountVars>>

createOrder == createOrderWith(UserIDs, AddressIDs, ItemLists)

\* orderService.cancelOrder inside its transaction; fault is a database
\* error raised by the final tx.order.update.
RECURSIVE restoreStock(_, _)
restoreStock(lines, bk) ==
  IF lines = <<>> THEN bk
  ELSE LET l == Head(lines)
           b == bk[l.bookID]
       IN restoreStock(Tail(lines),
            [bk EXCEPT ![l.bookID] =
               [b EXCEPT !.stockQuantity = b.stockQuantity + l.quantity,
                         !.soldNumber = b.soldNumber - l.quantity]])

\* if (order.status !== OrderStatus.pending) throw
cancelableUnlessCanceled(o) == o.status # "canceled"
cancelable(o) == o.status = "pending"

\* tx.order.update({ where: { orderID: id }, data: { status: canceled } })
orderCancelAndClear(o, id) ==
  [o EXCEPT ![id].status = "canceled", ![id].phoneSnapshot = ""]
orderCancel(o, id) == [o EXCEPT ![id].status = "canceled"]

cancelOrderTx(id, fault) ==
  IF id \notin DOMAIN orders
    THEN [err |-> "Order not found", book |-> book, orders |-> orders]
  ELSE IF ~cancelable(orders[id])
    THEN [err |-> "Only pending orders can be canceled", book |-> book, orders |-> orders]
  ELSE
    LET bk == restoreStock(orders[id].books, book) IN
    IF fault
      THEN [err |-> "Failed to cancel order", book |-> bk, orders |-> orders]
      ELSE [err |-> "none", book |-> bk,
            orders |-> orderCancel(orders, id)]

\* controllers/orderController cancelOrder: error message -> HTTP status.
cancelOrderStatus(err) ==
  CASE err = "none" -> 200
    [] err = "Order not found" -> 404
    [] err = "Only pending orders can be canceled" -> 400
    [] OTHER -> 500

cancelOrder ==
  \E id \in 1..MaxOrders, fault \in BOOLEAN :
    LET tx == cancelOrderTx(id, fault)
        newBook == transaction(book, tx.book, tx.err)
    IN /\ \A b \in Books : /\ newBook[b].stockQuantity <= MaxStock + 1
                            /\ newBook[b].soldNumber >= 0 - 1
       /\ book' = newBook
       /\ orders' = transaction(orders, tx.orders, tx.err)
       /\ response' = [op |-> "cancelOrder", status |-> cancelOrderStatus(tx.err),
                       error |-> tx.err, id |-> id, n |-> 0, req |-> <<>>]
       /\ UNCHANGED <<limiterVars, inflight, userApiVars, payVars, socialVars, accountVars>>

\* prisma.order.update({ where: { orderID: id }, data: { status } })
orderUpdateFromPending(o, id, status) ==
  IF o[id].status = "pending" THEN [o EXCEPT ![id].status = status] ELSE o
orderUpdate(o, id, status) == [o EXCEPT ![id].status = status]

\* orderService.updateOrderStatus behind its controller: the controller
\* rejects a status outside the enum, the service an unknown order.
updateOrderStatus ==
  \E id \in 1..MaxOrders, status \in OrderStatus \cup {"shipped"} :
    LET err == IF status \notin OrderStatus THEN "Valid status is required"
               ELSE IF id \notin DOMAIN orders THEN "Order not found"
               ELSE "none"
    IN /\ orders' = IF err = "none" THEN orderUpdate(orders, id, status) ELSE orders
       /\ response' = [op |-> "updateOrderStatus",
                       status |-> CASE err = "none" -> 200
                                    [] err = "Order not found" -> 404
                                    [] OTHER -> 400,
                       error |-> err, id |-> id, n |-> 0, req |-> <<status>>]
       /\ UNCHANGED <<limiterVars, inflight, userApiVars, book, payVars, socialVars, accountVars>>

\* bookService.updateBook behind its controller, for a request that carries
\* the field price alone: the controller rejects price <= 0, the service an
\* unknown book.
updateBook ==
  \E id \in BookIDs, price \in 0..MaxPrice :
    LET err == IF price <= 0 THEN "Price must be greater than 0"
               ELSE IF id \notin Books THEN "Book not found"
               ELSE "none"
    IN /\ book' = IF err = "none" THEN [book EXCEPT ![id].price = price] ELSE book
       /\ response' = [op |-> "updateBook",
                       status |-> CASE err = "none" -> 200
                                    [] err = "Book not found" -> 404
                                    [] OTHER -> 400,
                       error |-> err, id |-> 0, n |-> 0, req |-> <<>>]
       /\ UNCHANGED <<limiterVars, inflight, userApiVars, orders, payVars, socialVars, accountVars>>

\* paymentService.createPayment behind its controller.
paymentsOf(orderID) == {i \in DOMAIN payments : payments[i].orderID = orderID}

\* const existingPayment = await tx.payment.findUnique({ where: { orderID } })
existingPaymentNever(orderID) == FALSE
existingPayment(orderID) == paymentsOf(orderID) # {}

\* if (Number(amount) !== Number(order.totalAmount)) throw
amountMismatchBelow(amount, order) == amount < order.totalAmount
amountMismatch(amount, order) == amount # order.totalAmount

createPaymentErr(orderID, method, amount) ==
  IF amount = 0 THEN "OrderID, Method, and Amount are required"
  ELSE IF method \notin PaymentMethod THEN "Invalid payment method"
  ELSE IF orderID \notin DOMAIN orders THEN "Order not found"
  ELSE IF existingPayment(orderID) THEN "Payment already exists for this order"
  ELSE IF amountMismatch(amount, orders[orderID]) THEN "Payment amount does not match order total"
  ELSE "none"

createPayment ==
  \E orderID \in 1..MaxOrders, method \in {"cod", "cash"},
     amount \in 0..(MaxStock + 1) :
    LET err == createPaymentErr(orderID, method, amount)
        row == [orderID |-> orderID, status |-> "processing", method |-> method,
                amount |-> amount, paidAt |-> <<>>]
    IN /\ err = "none" => Len(payments) < MaxPayments
       /\ payments' = IF err = "none" THEN Append(payments, row) ELSE payments
       /\ response' = [op |-> "createPayment",
                       status |-> CASE err = "none" -> 201
                                    [] err = "Order not found" -> 404
                                    [] err = "Payment already exists for this order" -> 409
                                    [] OTHER -> 400,
                       error |-> err,
                       id |-> IF err = "none" THEN Len(payments) + 1 ELSE 0,
                       n |-> 0, req |-> <<orderID, amount, method>>]
       /\ UNCHANGED <<limiterVars, inflight, userApiVars, book, orders, now, socialVars, accountVars>>

\* if (status === PaymentStatus.paid) updateData.paidAt = new Date()
stampNever(p, status) == [p EXCEPT !.status = status]
stamp(p, status) ==
  IF status = "paid" THEN [p EXCEPT !.status = status, !.paidAt = <<now>>]
  ELSE [p EXCEPT !.status = status]

\* if (status === PaymentStatus.paid) prisma.order.update(... "completed")
completeOrderAlways(orderID, status) == [orders EXCEPT ![orderID].status = "completed"]
completeOrder(orderID, status) ==
  IF status = "paid" THEN [orders EXCEPT ![orderID].status = "completed"] ELSE orders

\* paymentService.updatePaymentStatus behind its controller: two separate
\* writes, the payment first; fault is a database error raised by the second.
updatePaymentStatus ==
  \E id \in 1..MaxPayments, status \in PaymentStatus \cup {"refunded"}, fault \in BOOLEAN :
    LET err == IF status \notin PaymentStatus THEN "Valid status is required"
               ELSE IF id \notin DOMAIN payments THEN "Payment not found"
               ELSE IF fault /\ status = "paid" THEN "Failed to update payment"
               ELSE "none"
        written == err \in {"none", "Failed to update payment"}
    IN /\ payments' = IF written THEN [payments EXCEPT ![id] = stamp(@, status)]
                      ELSE payments
       /\ orders' = IF err = "none" THEN completeOrder(payments[id].orderID, status)
                    ELSE orders
       /\ response' = [op |-> "updatePaymentStatus",
                       status |-> CASE err = "none" -> 200
                                    [] err = "Payment not found" -> 404
                                    [] err = "Valid status is required" -> 400
                                    [] OTHER -> 500,
                       error |-> err, id |-> id, n |-> 0, req |-> <<>>]
       /\ UNCHANGED <<limiterVars, inflight, userApiVars, book, now, socialVars, accountVars>>

\* if (payment.status !== PaymentStatus.processing) throw
processableUnlessPaid(p) == p.status # "paid"
processable(p) == p.status = "processing"

\* paymentService.processPayment behind its controller; isSuccess is the
\* outcome of Math.random() > 0.2, fault as in updatePaymentStatus.
processPayment ==
  \E id \in 1..MaxPayments, isSuccess \in BOOLEAN, fault \in BOOLEAN :
    LET err == IF id \notin DOMAIN payments THEN "Payment not found"
               ELSE IF ~processable(payments[id]) THEN "Payment is not in processing status"
               ELSE IF fault /\ isSuccess THEN "Failed to process payment"
               ELSE "none"
        newStatus == IF isSuccess THEN "paid" ELSE "failed"
        written == err \in {"none", "Failed to process payment"}
    IN /\ payments' = IF written THEN [payments EXCEPT ![id] = stamp(@, newStatus)]
                      ELSE payments
       /\ orders' = IF err = "none" THEN completeOrder(payments[id].orderID, newStatus)
                    ELSE orders
       /\ response' = [op |-> "processPayment",
                       status |-> CASE err = "none" -> 200
                                    [] err = "Payment not found" -> 404
                                    [] err = "Payment is not in processing status" -> 400
                                    [] OTHER -> 500,
                       error |-> err, id |-> id, n |-> 0, req |-> <<>>]
       /\ UNCHANGED <<limiterVars, inflight, userApiVars, book, now, socialVars, accountVars>>

\* reviewService.createReview behind its controller.  The ids of a request
\* are drawn already trimmed.
\* const existingReview = await tx.review.findFirst({ where: { userID, bookID } })
existingReviewNever(userID, bookID) == FALSE
existingReview(userID, bookID) ==
  \E i \in DOMAIN reviews : reviews[i].userID = userID /\ reviews[i].bookID = bookID

createReviewErr(userID, bookID, rating) ==
  IF rating = 0 THEN "UserID, BookID, and Rating are required"
  ELSE IF ~userExists(userID) THEN "User not found"
  ELSE IF bookID \notin Books THEN "Book not found"
  ELSE IF existingReview(userID, bookID) THEN "User already reviewed this book"
  ELSE IF rating < RatingMin \/ rating > RatingMax THEN "Rating must be between 1 and 5"
  ELSE "none"

Ratings == {RatingMin - 2, RatingMin - 1, RatingMin, RatingMax, RatingMax + 1}

createReview ==
  \E userID \in Users \cup {"ux"}, bookID \in BookIDs, rating \in Ratings :
    LET err == createReviewErr(userID, bookID, rating)
        row == [userID |-> userID, bookID |-> bookID, rating |-> rating]
    IN /\ err = "none" => Len(reviews) < MaxReviews
       /\ reviews' = transaction(reviews, Append(reviews, row), err)
       /\ response' = [op |-> "createReview",
                       status |-> CASE err = "none" -> 201
                                    [] err = "User already reviewed this book" -> 409
                                    [] err \in {"User not found", "Book not found"} -> 404
                                    [] OTHER -> 400,
                       error |-> err,
                       id |-> IF err = "none" THEN Len(reviews) + 1 ELSE 0,
                       n |-> 0, req |-> <<userID, bookID, rating>>]
       /\ UNCHANGED <<limiterVars, inflight, userApiVars, book, orders, payVars, wishlists, accountVars>>

\* wishlistService.addToWishlist behind its controller.
\* const existingWishlist = await tx.wishlist.findFirst({ where: { userID, bookID } })
existingWishlist(userID, bookID) ==
  \E i \in DOMAIN wishlists :
    wishlists[i].userID = userID /\ wishlists[i].bookID = bookID

addToWishlistErr(userID, bookID) ==
  IF ~userExists(userID) THEN "User not found"
  ELSE IF bookID \notin Books THEN "Book not found"
  ELSE IF existingWishlist(userID, bookID) THEN "Book already in wishlist"
  ELSE "none"

addToWishlist ==
  \E userID \in UserIDs, bookID \in BookIDs :
    LET err == addToWishlistErr(userID, bookID)
        row == [userID |-> userID, bookID |-> bookID]
    IN /\ err = "none" => Len(wishlists) < MaxWishlists
       /\ wishlists' = transaction(wishlists, Append(wishlists, row), err)
       /\ response' = [op |-> "addToWishlist",
                       status |-> CASE err = "none" -> 201
                                    [] err = "Book already in wishlist" -> 409
                                    [] OTHER -> 404,
                       error |-> err,
                       id |-> IF err = "none" THEN Len(wishlists) + 1 ELSE 0,
                       n |-> 0, req |-> <<userID, bookID>>]
       /\ UNCHANGED <<limiterVars, inflight, userApiVars, book, orders, payVars, reviews, accountVars>>

\* ------------------------------------------------------------ registration
\* tx.authentication.findUnique({ where: { email } })
emailExists(email) ==
  \E i \in DOMAIN authentication : authentication[i].email = email

\* bcrypt.hash(password, 12)
hash(password) == <<"bcrypt", password>>

\* authService.register: catch (error) { throw new Error("Registration failed") }
registerCatch(thrown) == IF thrown = "none" THEN "none" ELSE "Registration failed"

\* controllers/authController register: message.includes("already exists")
registerStatus(message) ==
  CASE message = "none" -> 201
    [] message = "Role must be one of: user, author, admin" -> 400
    [] message = "Email already exists" -> 409
    [] OTHER -> 500

\* authService.register behind controllers/authController.  The
\* Authentication and Cart rows are written through the transaction; the
\* profile row is written by userFactory through the global client, outside
\* it.  factoryFault is the database refusing the profile row (it names an
\* Authentication row that is not committed yet), cartFault the database
\* refusing the Cart row (its userID is a fresh id, not the User row's).
register ==
  \E email \in Emails, role \in Role \cup {"guest"},
     factoryFault \in BOOLEAN, cartFault \in BOOLEAN :
    LET authID == uuid + 1
        factoryID == uuid + 2
        userID == uuid + 3
        thrown == IF emailExists(email) THEN "Email already exists"
                  ELSE IF factoryFault THEN "PrismaClientKnownRequestError"
                  ELSE IF role = "user" /\ cartFault THEN "PrismaClientKnownRequestError"
                  ELSE "none"
        message == IF role \notin Role THEN "Role must be one of: user, author, admin"
                   ELSE registerCatch(thrown)
        inService == role \in Role
        factoryWrote == inService /\ ~emailExists(email) /\ ~factoryFault
        committed == inService /\ thrown = "none"
        authRow == [authID |-> authID, email |-> email, role |-> role,
                    pass |-> hash("Passw0rd")]
    IN /\ committed => Len(authentication) < MaxAccounts
       /\ factoryWrote => Len(user) + Len(author) + Len(admin) < MaxProfiles
       /\ authentication' = IF committed THEN Append(authentication, authRow)
                            ELSE authentication
       /\ user' = IF factoryWrote /\ role = "user"
                    THEN Append(user, [userID |-> factoryID, authID |-> authID])
                    ELSE user
       /\ author' = IF factoryWrote /\ role = "author"
                      THEN Append(author, [authorID |-> factoryID, authID |-> authID])
                      ELSE author
       /\ admin' = IF factoryWrote /\ role = "admin"
                     THEN Append(admin, [adminID |-> factoryID, authID |-> authID])
                     ELSE admin
       /\ cart' = IF committed /\ role = "user"
                    THEN Append(cart, [cartID |-> uuid + 4, userID |-> userID]) ELSE cart
       /\ uuid' = IF factoryWrote \/ committed THEN uuid + 4 ELSE uuid
       /\ response' = [op |-> "register", status |-> registerStatus(message),
                       error |-> message,
                       id |-> IF committed THEN authID ELSE 0,
                       n |-> 0, req |-> <<email, role>>]
       /\ UNCHANGED <<limiterVars, inflight, userApiVars, book, orders, payVars, socialVars>>

\* userData.email.toLowerCase()
toLowerCase(email) == IF email = "A@x.io" THEN "a@x.io" ELSE email

\* CommonHelpers.isValidEmail: /^[^\s@]+@[^\s@]+\.[^\s@]+$/
isValidEmail(email) == email # "nobody"

\* CommonHelpers.isStrongPassword: /^(?=.*[a-z])(?=.*[A-Z])(?=.*\d).{6,}$/
isStrongPassword(password) == password # "weak"

\* AuthService.validateRegistration: the list of errors.
validateRegistration(email, password) ==
  (IF ~isValidEmail(email) THEN <<"Valid email is required">> ELSE <<>>)
    \o (IF ~isStrongPassword(password)
          THEN <<"Password must be at least 6 characters with uppercase, lowercase, and number">>
          ELSE <<>>)

\* ApiHelpers.sanitizeUser: a copy of the object without the sensitive fields
\* it has at its top level.
sensitiveFields == {"password", "pass", "refreshToken", "token"}
sanitizeUser(data) == [k \in DOMAIN data \ sensitiveFields |-> data[k]]

\* userDetails: the profile object under the key of the role.
userDetails(role, id) ==
  CASE role = "user" -> [user |-> [userID |-> id]]
    [] role = "author" -> [author |-> [authorID |-> id]]
    [] role = "admin" -> [admin |-> [adminID |-> id]]

\* AuthService.register (services/auth.service.ts) behind
\* AuthController.register: every row is written through one transaction;
\* fault is a database error raised inside it.
AuthService_registerWith(emails, passwords, roles) ==
  \E email \in emails, password \in passwords, role \in roles, fault \in BOOLEAN :
    LET authID == uuid + 1
        userID == uuid + 2
        errors == validateRegistration(email, password)
        err == IF role \notin Role THEN "Invalid role"
               ELSE IF errors # <<>> THEN errors[1]
               ELSE IF emailExists(toLowerCase(email)) THEN "Account already exists"
               ELSE IF fault THEN "PrismaClientKnownRequestError"
               ELSE "none"
        ok == err = "none"
        authRow == [authID |-> authID, email |-> toLowerCase(email), role |-> role,
                    pass |-> hash(password)]
    IN /\ ok => /\ Len(authentication) < MaxAccounts
                /\ Len(user) + Len(author) + Len(admin) < MaxProfiles
       /\ authentication' = IF ok THEN Append(authentication, authRow) ELSE authentication
       /\ user' = IF ok /\ role = "user"
                    THEN Append(user, [userID |-> userID, authID |-> authID]) ELSE user
       /\ author' = IF ok /\ role = "author"
                      THEN Append(author, [authorID |-> userID, authID |-> authID])
                      ELSE author
       /\ admin' = IF ok /\ role = "admin"
                     THEN Append(admin, [adminID |-> userID, authID |-> authID])
                     ELSE admin
       /\ cart' = IF ok /\ role = "user"
                    THEN Append(cart, [cartID |-> uuid + 3, userID |-> userID]) ELSE cart
       /\ uuid' = IF ok THEN uuid + 3 ELSE uuid
       /\ response' = [op |-> "AuthService.register",
                       status |-> CASE ok -> 201
                                    [] err = "Account already exists" -> 409
                                    [] err \in {"Invalid role", "Valid email is required"} -> 422
                                    [] OTHER -> 500,
                       error |-> err,
                       id |-> IF ok THEN authID ELSE 0,
                       n |-> 0, req |-> <<toLowerCase(email), role>>,
                       body |-> IF ok
                                  THEN [user |-> sanitizeUser(
                                          [authID |-> authID,
                                           email |-> authRow.email,
                                           role |-> role,
                                           auth |-> authRow]
                                            @@ userDetails(role, userID))]
                                  ELSE <<>>]
       /\ UNCHANGED <<limiterVars, inflight, userApiVars, book, orders, payVars, socialVars>>

AuthService_register == AuthService_registerWith(RawEmails, Passwords, Role \cup {"guest"})

\* AuthService.login behind AuthController.login; bcrypt.compare(password,
\* auth.pass) holds when auth.pass is the hash of password.
login ==
  \E email \in RawEmails, password \in Passwords :
    LET rows == {i \in DOMAIN authentication :
                   authentication[i].email = toLowerCase(email)}
        auth == authentication[CHOOSE i \in rows : TRUE]
        err == IF rows = {} THEN "Invalid credentials"
               ELSE IF hash(password) # auth.pass THEN "Invalid credentials"
               ELSE "none"
        users == {i \in DOMAIN user : user[i].authID = auth.authID}
        authors == {i \in DOMAIN author : author[i].authID = auth.authID}
        admins == {i \in DOMAIN admin : admin[i].authID = auth.authID}
        details == IF auth.role = "user" /\ users # {}
                     THEN userDetails("user", user[CHOOSE i \in users : TRUE].userID)
                   ELSE IF auth.role = "author" /\ authors # {}
                     THEN userDetails("author", author[CHOOSE i \in authors : TRUE].authorID)
                   ELSE IF auth.role = "admin" /\ admins # {}
                     THEN userDetails("admin", admin[CHOOSE i \in admins : TRUE].adminID)
                   ELSE <<>>
    IN /\ response' = [op |-> "login",
                       status |-> IF err = "none" THEN 200 ELSE 401,
                       error |-> err,
                       id |-> IF err = "none" THEN auth.authID ELSE 0,
                       n |-> 0, req |-> <<toLowerCase(email)>>,
                       body |-> IF err = "none"
                                  THEN [user |-> sanitizeUser(
                                          [authID |-> auth.authID,
                                           email |-> auth.email,
                                           role |-> auth.role] @@ details)]
                                  ELSE <<>>]
       /\ UNCHANGED <<limiterVars, inflight, userApiVars, book, orders, payVars, socialVars, accountVars>>

\* ---------------------------------------------------------- user management
\* AuthService.getProfile(authID): the profile row the role names, if any.
profileUserID(authID) ==
  LET a == {i \in DOMAIN authentication : authentication[i].authID = authID}
      u == {i \in DOMAIN user : user[i].authID = authID}
  IN IF a # {} /\ authentication[CHOOSE i \in a : TRUE].role = "user" /\ u # {}
       THEN user[CHOOSE i \in u : TRUE].userID
       ELSE 0

\* The ids a request can name: those of the User rows and 0, the id of none.
UserRowIDs == {user[i].userID : i \in DOMAIN user} \cup {0}

\* UserService.updateUserRole behind UserController.updateUserRole, called
\* with the token of the account caller.  The writes are separate statements
\* on the global client.
updateUserRole ==
  \E caller \in DOMAIN authentication, userID \in UserRowIDs,
     role \in Role \cup {"guest"} :
    LET reqUser == authentication[caller]
        rows == {i \in DOMAIN user : user[i].userID = userID}
        u == user[CHOOSE i \in rows : TRUE]
        auths == {i \in DOMAIN authentication : authentication[i].authID = u.authID}
        old == authentication[CHOOSE i \in auths : TRUE].role
        err == IF reqUser.role # "admin" THEN "Admin access required"
               ELSE IF role \notin Role THEN "Valid role is required"
               ELSE IF profileUserID(reqUser.authID) = userID /\ userID # 0
                 THEN "Cannot change your own role"
               ELSE IF rows = {} THEN "User not found"
               ELSE IF auths = {} THEN "PrismaClientKnownRequestError"
               ELSE "none"
        ok == err = "none"
    IN /\ (ok /\ old = "user" /\ role = "author")
            => (Len(author) < MaxProfiles /\ uuid < MaxUuid)
       /\ authentication' =
            IF ok THEN [i \in DOMAIN authentication |->
                          IF i \in auths THEN [authentication[i] EXCEPT !.role = role]
                          ELSE authentication[i]]
            ELSE authentication
       /\ author' =
            IF ok /\ old = "user" /\ role = "author"
              THEN Append(author, [authorID |-> uuid + 1, authID |-> u.authID])
            ELSE IF ok /\ old = "author" /\ role = "user"
              THEN SelectSeq(author, LAMBDA r : r.authID # u.authID)
            ELSE author
       /\ uuid' = IF ok /\ old = "user" /\ role = "author" THEN uuid + 1 ELSE uuid
       /\ response' = [op |-> "updateUserRole",
                       status |-> CASE ok -> 200
                                    [] err \in {"Admin access required",
                                                "Cannot change your own role"} -> 403
                                    [] err = "Valid role is required" -> 422
                                    [] err = "User not found" -> 404
                                    [] OTHER -> 500,
                       error |-> err, id |-> userID, n |-> 0,
                       req |-> <<reqUser.authID, role>>]
       /\ UNCHANGED <<limiterVars, inflight, userApiVars, book, orders, payVars, socialVars, user, admin, cart>>

\* UserService.deleteUser behind UserController.deleteUser: the User row is
\* deleted and, by cascade, the rows that reference it; the Authentication
\* row, which the User row references, is not touched.
deleteUser ==
  \E caller \in DOMAIN authentication, userID \in UserRowIDs :
    LET reqUser == authentication[caller]
        err == IF reqUser.role # "admin" THEN "Admin access required"
               ELSE IF profileUserID(reqUser.authID) = userID /\ userID # 0
                 THEN "Cannot delete your own account"
               ELSE IF \A i \in DOMAIN user : user[i].userID # userID
                 THEN "User not found"
               ELSE "none"
        ok == err = "none"
    IN /\ user' = IF ok THEN SelectSeq(user, LAMBDA r : r.userID # userID) ELSE user
       /\ cart' = IF ok THEN SelectSeq(cart, LAMBDA r : r.userID # userID) ELSE cart
       /\ response' = [op |-> "deleteUser",
                       status |-> CASE ok -> 200
                                    [] err = "User not found" -> 404
                                    [] OTHER -> 403,
                       error |-> err, id |-> userID, n |-> 0,
                       req |-> <<reqUser.authID>>]
       /\ UNCHANGED <<limiterVars, inflight, userApiVars, book, orders, payVars, socialVars, authentication, author,
                      admin, uuid>>

\* ------------------------------------------------------------ user addresses
\* middleware requireOwnership(resourceOwnerField) for the request of reqUser
\* on a resource whose owner field is resourceOwnerId (0 when the request
\* names none): TRUE when it calls next().
requireOwnership(reqUser, resourceOwnerId) ==
  LET users == {i \in DOMAIN user : user[i].authID = reqUser.authID}
      authors == {i \in DOMAIN author : author[i].authID = reqUser.authID}
      userOwnedId == IF reqUser.role = "user" /\ users # {}
                       THEN user[CHOOSE i \in users : TRUE].userID
                     ELSE IF reqUser.role = "author" /\ authors # {}
                       THEN author[CHOOSE i \in authors : TRUE].authorID
                     ELSE 0
  IN IF reqUser.role = "admin" THEN TRUE
     ELSE IF resourceOwnerId = 0 THEN FALSE
     ELSE userOwnedId # 0 /\ userOwnedId = resourceOwnerId

\* The ids a request can name: those of the Address rows and 0, the id of none.
AddressRowIDs == {addresses[i].addressID : i \in DOMAIN addresses} \cup {0}

\* UserService.createUserAddress behind UserController.createUserAddress,
\* called with the token of the account caller.
createUserAddress ==
  \E caller \in DOMAIN authentication, city \in {"Ha Noi", ""} :
    LET reqUser == authentication[caller]
        userID == profileUserID(reqUser.authID)
        err == IF city = "" THEN "City and ward are required"
               ELSE IF userID = 0 THEN "User profile not found"
               ELSE "none"
        ok == err = "none"
    IN /\ ok => (Len(addresses) < MaxAddresses /\ uuid < MaxUuid)
       /\ addresses' = IF ok THEN Append(addresses, [addressID |-> uuid + 1,
                                                    userID |-> userID, city |-> city,
                                                    ward |-> "w1", specificAddress |-> ""])
                       ELSE addresses
       /\ uuid' = IF ok THEN uuid + 1 ELSE uuid
       /\ response' = [op |-> "createUserAddress",
                       status |-> CASE ok -> 201
                                    [] err = "User profile not found" -> 404
                                    [] OTHER -> 422,
                       error |-> err, id |-> IF ok THEN uuid + 1 ELSE 0, n |-> 0,
                       req |-> <<reqUser.authID>>]
       /\ UNCHANGED <<limiterVars, inflight, book, orders, payVars, socialVars, authentication, user, author,
                      admin, cart, cartBook>>

\* UserService.updateUserAddress behind UserController.updateUserAddress on
\* the route PUT /addresses/:addressID, which is behind authenticateToken and
\* checkUserActive only.
updateUserAddress ==
  \E caller \in DOMAIN authentication, addressID \in AddressRowIDs,
     updateData \in {<<>>, [city |-> "Hue"]} :
    LET reqUser == authentication[caller]
        rows == {i \in DOMAIN addresses : addresses[i].addressID = addressID}
        err == IF updateData = <<>> THEN "No data provided for update"
               ELSE IF rows = {} THEN "Record to update not found"
               ELSE "none"
        ok == err = "none"
    IN /\ addresses' = IF ok THEN [i \in DOMAIN addresses |->
                                     IF i \in rows THEN updateData @@ addresses[i]
                                     ELSE addresses[i]]
                       ELSE addresses
       /\ response' = [op |-> "updateUserAddress",
                       status |-> CASE ok -> 200
                                    [] err = "Record to update not found" -> 404
                                    [] OTHER -> 422,
                       error |-> err, id |-> addressID, n |-> 0,
                       req |-> <<reqUser.authID, addressID>>]
       /\ UNCHANGED <<limiterVars, inflight, book, orders, payVars, socialVars, accountVars, cartBook>>

\* UserService.deleteUserAddress behind UserController.deleteUserAddress, on
\* a route behind the same two middlewares.
deleteUserAddress ==
  \E caller \in DOMAIN authentication, addressID \in AddressRowIDs :
    LET reqUser == authentication[caller]
        rows == {i \in DOMAIN addresses : addresses[i].addressID = addressID}
        err == IF rows = {} THEN "Record to delete not found" ELSE "none"
        ok == err = "none"
    IN /\ addresses' = IF ok THEN SelectSeq(addresses, LAMBDA r : r.addressID # addressID)
                       ELSE addresses
       /\ response' = [op |-> "deleteUserAddress",
                       status |-> IF ok THEN 200 ELSE 404,
                       error |-> err, id |-> addressID, n |-> 0,
                       req |-> <<reqUser.authID, addressID>>]
       /\ UNCHANGED <<limiterVars, inflight, book, orders, payVars, socialVars, accountVars, cartBook>>

\* --------------------------------------------------------------------- carts
\* tx.cart.findUnique({ where: { userID } }): the indexes of the user's carts.
cartsOfNone(userID) == {}
cartsOf(userID) == {i \in DOMAIN cart : cart[i].userID = userID}

\* Quantities as a request's JSON carries them, in halves: 1 is 0.5, 2 is 1.
RawQuantities == {0 - 2, 0, 1, 2, 2 * (MaxStock + 1)}

\* parseInt(quantity): the integer part, towards zero.
parseInt(halves) == IF halves >= 0 THEN halves \div 2 ELSE 0 - ((0 - halves) \div 2)

\* cartService.getCartByUserId behind the controller getCart: find the
\* user's cart or create it.  refused is the database rejecting the insert
\* for a userID of no User row.
getCartByUserId ==
  \E userID \in UserIDs :
   \E refused \in IF cartsOf(userID) = {} /\ ~userExists(userID) THEN BOOLEAN ELSE {FALSE} :
    LET found == cartsOf(userID)
        err == IF found = {} /\ ~userExists(userID) /\ refused
                 THEN "Failed to retrieve cart" ELSE "none"
        create == found = {} /\ err = "none"
        cartID == IF found # {} THEN cart[CHOOSE i \in found : TRUE].cartID
                  ELSE uuid + 1
    IN /\ cart' = IF create THEN Append(cart, [cartID |-> cartID, userID |-> userID])
                  ELSE cart
       /\ uuid' = IF create THEN uuid + 1 ELSE uuid
       /\ response' = [op |-> "getCart", status |-> IF err = "none" THEN 200 ELSE 500,
                       error |-> err, id |-> IF err = "none" THEN cartID ELSE 0,
                       n |-> 0, req |-> <<userID>>]
       /\ UNCHANGED <<limiterVars, inflight, book, orders, payVars, socialVars, authentication, user, author,
                      admin, userApiVars>>

\* The indexes of the CartBook rows of a cart for a book.
itemsOf(cartID, bookID) ==
  {i \in DOMAIN cartBook : cartBook[i].cartID = cartID /\ cartBook[i].bookID = bookID}

\* cartService.addItemToCart behind the controller addToCart.
addItemToCart ==
  \E userID \in UserIDs, bookID \in BookIDs, raw \in RawQuantities,
     isSelected \in {"undefined", "false"} :
   \E refused \in IF cartsOf(userID) = {} /\ ~userExists(userID) THEN BOOLEAN ELSE {FALSE} :
    LET quantity == parseInt(raw)
        found == cartsOf(userID)
        cartID == IF found # {} THEN cart[CHOOSE i \in found : TRUE].cartID
                  ELSE uuid + 1
        existing == itemsOf(cartID, bookID)
        err == IF raw = 0 THEN "UserID, BookID, and Quantity are required"
               ELSE IF raw <= 0 THEN "Quantity must be greater than 0"
               ELSE IF found = {} /\ ~userExists(userID) /\ refused
                 THEN "Invalid bookID"
               ELSE IF bookID \notin Books THEN "Book not found"
               ELSE IF quantity > book[bookID].stockQuantity THEN "Not enough stock"
               ELSE "none"
        ok == err = "none"
        sel == IF isSelected = "undefined" THEN "true" ELSE isSelected
        newCart == IF found = {} THEN Append(cart, [cartID |-> cartID, userID |-> userID])
                   ELSE cart
        newItems == IF existing # {}
                      THEN [i \in DOMAIN cartBook |->
                              IF i \in existing
                                THEN [cartBook[i] EXCEPT !.quantity = @ + quantity,
                                                         !.isSelected = sel]
                                ELSE cartBook[i]]
                      ELSE Append(cartBook, [cartID |-> cartID, bookID |-> bookID,
                                             quantity |-> quantity, isSelected |-> sel])
    IN /\ ok => /\ Len(newItems) <= MaxCartItems
                /\ \A i \in DOMAIN newItems : newItems[i].quantity <= MaxCartQuantity
       /\ cart' = transaction(cart, newCart, err)
       /\ cartBook' = transaction(cartBook, newItems, err)
       /\ uuid' = IF ok /\ found = {} THEN uuid + 1 ELSE uuid
       /\ response' = [op |-> "addToCart",
                       status |-> CASE ok -> 200
                                    [] err = "Book not found" -> 404
                                    [] err = "Invalid bookID" -> 500
                                    [] OTHER -> 400,
                       error |-> err, id |-> IF ok THEN cartID ELSE 0, n |-> 0,
                       req |-> <<userID, bookID>>]
       /\ UNCHANGED <<limiterVars, inflight, book, orders, payVars, socialVars, authentication, user, author,
                      admin, addresses>>

\* cartService.updateCartItem behind its controller; defined is whether the
\* request carries a quantity.
updateCartItem ==
  \E userID \in UserIDs, bookID \in BookIDs, defined \in BOOLEAN,
     isSelected \in {"undefined", "true"} :
   \E raw \in IF defined THEN RawQuantities ELSE {0} :
    LET found == cartsOf(userID)
        cartID == cart[CHOOSE i \in found : TRUE].cartID
        existing == itemsOf(cartID, bookID)
        quantity == parseInt(raw)
        err == IF found = {} THEN "Cart not found"
               ELSE IF existing = {} THEN "Item not found in cart"
               ELSE IF defined /\ quantity > book[bookID].stockQuantity
                 THEN "Not enough stock"
               ELSE "none"
        ok == err = "none"
        newItems ==
          IF defined /\ quantity <= 0
            THEN SelectSeq(cartBook, LAMBDA r : ~(r.cartID = cartID /\ r.bookID = bookID))
          ELSE [i \in DOMAIN cartBook |->
                  IF i \notin existing THEN cartBook[i]
                  ELSE [cartBook[i] EXCEPT
                          !.quantity = IF defined THEN quantity ELSE @,
                          !.isSelected = IF isSelected # "undefined" THEN isSelected ELSE @]]
    IN /\ cartBook' = IF ok THEN newItems ELSE cartBook
       /\ response' = [op |-> "updateCartItem",
                       status |-> CASE ok -> 200
                                    [] err = "Not enough stock" -> 400
                                    [] OTHER -> 404,
                       error |-> err, id |-> IF found # {} THEN cartID ELSE 0, n |-> 0,
                       req |-> <<userID, bookID>>]
       /\ UNCHANGED <<limiterVars, inflight, book, orders, payVars, socialVars, accountVars, addresses>>

\* cartService.removeItemFromCart behind the controller removeFromCart:
\* tx.cartBook.delete throws P2025 when the cart has no row for the book.
removeItemFromCart ==
  \E userID \in UserIDs, bookID \in BookIDs :
    LET found == cartsOf(userID)
        cartID == cart[CHOOSE i \in found : TRUE].cartID
        err == IF found = {} THEN "Cart not found"
               ELSE IF itemsOf(cartID, bookID) = {} THEN "Item not found in cart"
               ELSE "none"
        ok == err = "none"
    IN /\ cartBook' =
            IF ok THEN SelectSeq(cartBook, LAMBDA r : ~(r.cartID = cartID /\ r.bookID = bookID))
            ELSE cartBook
       /\ response' = [op |-> "removeFromCart", status |-> IF ok THEN 200 ELSE 404,
                       error |-> err, id |-> IF found # {} THEN cartID ELSE 0, n |-> 0,
                       req |-> <<userID, bookID>>]
       /\ UNCHANGED <<limiterVars, inflight, book, orders, payVars, socialVars, accountVars, addresses>>

\* cartService.clearCart behind its controller.
clearCart ==
  \E userID \in UserIDs :
    LET found == cartsOf(userID)
        cartID == cart[CHOOSE i \in found : TRUE].cartID
        err == IF found = {} THEN "Cart not found" ELSE "none"
        ok == err = "none"
    IN /\ cartBook' = IF ok THEN SelectSeq(cartBook, LAMBDA r : r.cartID # cartID)
                      ELSE cartBook
       /\ response' = [op |-> "clearCart", status |-> IF ok THEN 200 ELSE 404,
                       error |-> err, id |-> IF found # {} THEN cartID ELSE 0, n |-> 0,
                       req |-> <<userID>>]
       /\ UNCHANGED <<limiterVars, inflight, book, orders, payVars, socialVars, accountVars, addresses>>

\* ------------------------------------------------- orders of registered users
\* UserService.updateUserProfile behind UserController.updateCurrentUserProfile,
\* for a request that carries the field phone alone.
updateUserProfile ==
  \E caller \in DOMAIN authentication, phone \in {"p2"} :
    LET authID == authentication[caller].authID
        rows == {i \in DOMAIN user : user[i].authID = authID}
        err == IF rows = {} THEN "User not found" ELSE "none"
        ok == err = "none"
    IN /\ user' = IF ok THEN [i \in DOMAIN user |->
                               IF i = CHOOSE r \in rows : TRUE
                                 THEN [phone |-> phone] @@ user[i] ELSE user[i]]
                  ELSE user
       /\ response' = [op |-> "updateUserProfile", status |-> IF ok THEN 200 ELSE 404,
                       error |-> err, id |-> authID, n |-> 0, req |-> <<authID>>]
       /\ UNCHANGED <<limiterVars, inflight, book, orders, payVars, socialVars, authentication, author, admin,
                      cart, uuid, userApiVars>>

\* orderService.createOrder behind its controller, for the User and Address
\* rows that registration and createUserAddress wrote.
createOrderRegistered(itemLists) ==
  /\ Len(orders) < MaxOrders
  /\ \E userID \in UserRowIDs, addressID \in AddressRowIDs, phone \in Phones,
        items \in itemLists :
       LET tx == createOrderTxOn(
                   \E i \in DOMAIN user : user[i].userID = userID,
                   {addresses[i] : i \in {j \in DOMAIN addresses :
                                            /\ addresses[j].addressID = addressID
                                            /\ addresses[j].userID = userID}},
                   userID, phone, items)
           newOrders == transaction(orders, orders \o tx.order, tx.err)
       IN /\ book' = transaction(book, tx.book, tx.err)
          /\ orders' = newOrders
          /\ response' = [op |-> "createOrder", status |-> createOrderStatus(tx.err),
                          error |-> tx.err, id |-> Len(newOrders), n |-> tx.n,
                          req |-> <<addressID>>]
          /\ UNCHANGED <<limiterVars, inflight, userApiVars, payVars, socialVars, accountVars>>

\* ------------------------------------------------------- requests in flight
\* tx.book.update({ data: { stockQuantity: book.stockQuantity - item.quantity,
\* soldNumber: book.soldNumber + item.quantity } }): the values computed from
\* the rows as they were read, written over the rows as they are.
bookUpdateRelative(bk, read, computed, touched) ==
  [b \in DOMAIN bk |->
     IF b \in touched
       THEN [bk[b] EXCEPT
               !.stockQuantity = @ - (read[b].stockQuantity - computed[b].stockQuantity),
               !.soldNumber = @ + (computed[b].soldNumber - read[b].soldNumber)]
       ELSE bk[b]]
bookUpdate(bk, read, computed, touched) ==
  [b \in DOMAIN bk |->
     IF b \in touched
       THEN [bk[b] EXCEPT !.stockQuantity = computed[b].stockQuantity,
                          !.soldNumber = computed[b].soldNumber]
       ELSE bk[b]]

\* The item lists of the requests that race for the copies of one book.
RaceItemLists ==
  { <<[bookID |-> "b1", quantity |-> 1]>>, <<[bookID |-> "b1", quantity |-> MaxStock]>> }

\* orderService.createOrder up to its last read: the checks and the stock
\* test of every item against the rows read.  A request that fails them is
\* answered at once; one that passes is left in flight with the rows it read
\* and the values it computed from them.
createOrderRead ==
  \E p \in Procs, phone \in Phones, items \in RaceItemLists :
    LET tx == createOrderTx("u1", "a1", phone, items)
        open == {q \in Procs : inflight[q].op = "createOrder"}
    IN /\ inflight[p] = idle
       /\ Len(orders) + Cardinality(open) < MaxOrders
       /\ inflight' = IF tx.err = "none"
                        THEN [inflight EXCEPT ![p] = [op |-> "createOrder", read |-> book,
                                                       tx |-> tx]]
                        ELSE inflight
       /\ response' = IF tx.err = "none" THEN noResponse
                      ELSE [op |-> "createOrder", status |-> createOrderStatus(tx.err),
                            error |-> tx.err, id |-> Len(orders), n |-> tx.n, req |-> <<p>>]
       /\ UNCHANGED <<limiterVars, book, orders, userApiVars, payVars, socialVars, accountVars>>

\* The rest of the transaction of a createOrder in flight: the Book rows are
\* updated, the Order row is inserted and the transaction commits.  When a
\* row it read was written meanwhile, a database that serializes the
\* transactions refuses the commit and one that does not lets it through.
createOrderWrite ==
  \E p \in Procs :
    /\ inflight[p].op = "createOrder"
    /\ LET t == inflight[p]
           touched == booksOf(t.tx.order[1])
           stale == \E b \in touched : book[b] # t.read[b]
       IN \E serializes \in IF stale THEN BOOLEAN ELSE {FALSE} :
            LET err == IF serializes THEN "Transaction failed due to a write conflict"
                       ELSE "none"
                newOrders == transaction(orders, orders \o t.tx.order, err)
            IN /\ book' = transaction(book, bookUpdate(book, t.read, t.tx.book, touched), err)
               /\ orders' = newOrders
               /\ response' = [op |-> "createOrder", status |-> createOrderStatus(err),
                               error |-> err, id |-> Len(newOrders), n |-> t.tx.n,
                               req |-> <<p>>]
    /\ inflight' = [inflight EXCEPT ![p] = idle]
    /\ UNCHANGED <<limiterVars, userApiVars, payVars, socialVars, accountVars>>

\* orderService.cancelOrder up to its last read: the order is read with its
\* lines and must be pending.  A request that fails is answered at once; one
\* that passes is left in flight with the Order row it read.
cancelOrderRead ==
  \E p \in Procs, id \in 1..MaxOrders :
    LET tx == cancelOrderTx(id, FALSE)
    IN /\ inflight[p] = idle
       /\ inflight' = IF tx.err = "none"
                        THEN [inflight EXCEPT ![p] = [op |-> "cancelOrder", id |-> id,
                                                       read |-> orders[id]]]
                        ELSE inflight
       /\ response' = IF tx.err = "none" THEN noResponse
                      ELSE [op |-> "cancelOrder", status |-> cancelOrderStatus(tx.err),
                            error |-> tx.err, id |-> id, n |-> 0, req |-> <<p>>]
       /\ UNCHANGED <<limiterVars, book, orders, userApiVars, payVars, socialVars, accountVars>>

\* The rest of the transaction of a cancelOrder in flight: every line read
\* is added back with increment and decrement, the status is written and the
\* transaction commits.  When the Order row was written meanwhile, a database
\* that serializes the transactions refuses the commit and one that does not
\* lets it through.
cancelOrderWrite ==
  \E p \in Procs :
    /\ inflight[p].op = "cancelOrder"
    /\ LET t == inflight[p]
           stale == orders[t.id] # t.read
       IN \E serializes \in IF stale THEN BOOLEAN ELSE {FALSE} :
            LET err == IF serializes THEN "Transaction failed due to a write conflict"
                       ELSE "none"
            IN /\ book' = transaction(book, restoreStock(t.read.books, book), err)
               /\ orders' = transaction(orders, orderCancel(orders, t.id), err)
               /\ response' = [op |-> "cancelOrder", status |-> cancelOrderStatus(err),
                               error |-> err, id |-> t.id, n |-> 0, req |-> <<p>>]
    /\ inflight' = [inflight EXCEPT ![p] = idle]
    /\ UNCHANGED <<limiterVars, userApiVars, payVars, socialVars, accountVars>>

\* paymentService.processPayment up to its read: prisma.payment.findUnique
\* and the test of the status read.  isSuccess is the outcome of
\* Math.random() > 0.2.  No transaction is opened.
processPaymentRead ==
  \E p \in Procs, id \in 1..MaxPayments, isSuccess \in BOOLEAN :
    LET err == IF id \notin DOMAIN payments THEN "Payment not found"
               ELSE IF ~processable(payments[id]) THEN "Payment is not in processing status"
               ELSE "none"
    IN /\ inflight[p] = idle
       /\ inflight' = IF err = "none"
                        THEN [inflight EXCEPT ![p] = [op |-> "processPayment", id |-> id,
                                                       isSuccess |-> isSuccess,
                                                       orderID |-> payments[id].orderID]]
                        ELSE inflight
       /\ response' = IF err = "none" THEN noResponse
                      ELSE [op |-> "processPayment",
                            status |-> IF err = "Payment not found" THEN 404 ELSE 400,
                            error |-> err, id |-> id, n |-> 0, req |-> <<p>>]
       /\ UNCHANGED <<limiterVars, book, orders, payments, now, userApiVars, socialVars, accountVars>>

\* The writes of a processPayment in flight: prisma.payment.update with the
\* new status (and paidAt when paid) and, when paid, prisma.order.update of
\* the order read with the payment.
processPaymentWrite ==
  \E p \in Procs :
    /\ inflight[p].op = "processPayment"
    /\ LET t == inflight[p]
           newStatus == IF t.isSuccess THEN "paid" ELSE "failed"
       IN /\ payments' = [payments EXCEPT ![t.id] = stamp(@, newStatus)]
          /\ orders' = completeOrder(t.orderID, newStatus)
          /\ response' = [op |-> "processPayment", status |-> 200, error |-> "none",
                          id |-> t.id, n |-> 0, req |-> <<p>>]
    /\ inflight' = [inflight EXCEPT ![p] = idle]
    /\ UNCHANGED <<limiterVars, book, now, userApiVars, socialVars, accountVars>>

\* -------------------------------------------------------------- rate limiter
\* ipAttempts.filter((time) => time > windowStart), windowStart = now - 60000
recentAttempts(ipAttempts) == SelectSeq(ipAttempts, LAMBDA time : time > now - WindowLen)

\* if (recentAttempts.length >= requestsPerMinute)
limitExceededAbove(recent) == Len(recent) > requestsPerMinute
limitExceeded(recent) == Len(recent) >= requestsPerMinute

\* The middleware authRateLimit(requestsPerMinute) returns, on a request
\* from ip: the attempts outside the window are dropped, a request over the
\* limit is answered 503 and the others are recorded and passed on.
authRateLimit ==
  \E ip \in IPs :
    LET recent == recentAttempts(attempts[ip].times)
        reject == limitExceeded(recent)
    IN /\ attempts' = [attempts EXCEPT ![ip] =
                         [has |-> TRUE,
                          times |-> IF reject THEN recent ELSE Append(recent, now)]]
       /\ admitted' = IF reject THEN admitted
                      ELSE [admitted EXCEPT ![ip] = Append(@, now)]
       /\ response' = [op |-> "authRateLimit", status |-> IF reject THEN 503 ELSE 200,
                       error |-> IF reject THEN "Too many authentication attempts" ELSE "none",
                       id |-> 0, n |-> Len(recent), req |-> <<ip>>]
       /\ UNCHANGED <<inflight, book, orders, payVars, socialVars, accountVars, userApiVars>>

\* The callback of setInterval: every key is filtered as above and deleted
\* when nothing is left.
sweep ==
  /\ attempts' = [ip \in IPs |->
                    LET recent == recentAttempts(attempts[ip].times)
                    IN IF ~attempts[ip].has THEN attempts[ip]
                       ELSE IF Len(recent) = 0 THEN [has |-> FALSE, times |-> <<>>]
                       ELSE [has |-> TRUE, times |-> recent]]
  /\ response' = noResponse
  /\ UNCHANGED <<inflight, admitted, book, orders, payVars, socialVars, accountVars,
                 userApiVars>>

\* Date.now() moves on.
elapse ==
  /\ now < MaxClock
  /\ now' = now + 1
  /\ response' = noResponse
  /\ UNCHANGED <<inflight, limiterVars, book, orders, payments, socialVars, accountVars,
                 userApiVars>>

\* ------------------------------------------------------------------- tokens
\* jwt.sign(payload, JWT_SECRET, { expiresIn }) at time at.  issuedFor notes
\* the operation the token was handed out for; no code reads it.
jwtSign(payload, at, expiresIn, issuedFor) ==
  [payload |-> payload, exp |-> at + expiresIn, signed |-> TRUE, issuedFor |-> issuedFor]

\* jwt.verify(token, JWT_SECRET): the signature and the expiry.
jwtVerify(token) == token.signed /\ token.exp > now

\* decoded.type and the like: a field of the payload, undefined when absent.
field(payload, name) == IF name \in DOMAIN payload THEN payload[name] ELSE "undefined"

\* AuthService.generateTokens for an Authentication row, at time at.
generateTokens(auth, at) ==
  LET payload == [authID |-> auth.authID, email |-> auth.email, role |-> auth.role]
  IN [accessToken |-> jwtSign(payload, at, ACCESS_TOKEN_EXPIRY, "access"),
      refreshToken |-> jwtSign(payload, at, REFRESH_TOKEN_EXPIRY, "refresh")]

\* AuthService.forgotPassword for an Authentication row, at time at.
forgotPassword(auth, at) ==
  jwtSign([authID |-> auth.authID, email |-> auth.email, type |-> "password_reset"],
          at, PASSWORD_RESET_EXPIRY, "reset")

\* The tokens a client can present: those register, login, refreshToken and
\* forgotPassword have handed out for the accounts up to now, and a forged one.
tokensIssued ==
  UNION {{generateTokens(authentication[a], at).accessToken,
          generateTokens(authentication[a], at).refreshToken,
          forgotPassword(authentication[a], at)} :
           a \in DOMAIN authentication, at \in 0..now}
    \cup {[payload |-> [authID |-> 1, email |-> "a@x.io", role |-> "admin"],
           exp |-> MaxTime + 1, signed |-> FALSE, issuedFor |-> "none"]}

\* The Authentication rows of an authID.
authsOf(authID) == {i \in DOMAIN authentication : authentication[i].authID = authID}

\* AuthService.refreshToken behind AuthController.refreshToken.
refreshToken ==
  \E token \in tokensIssued :
    LET err == IF ~jwtVerify(token) \/ authsOf(token.payload.authID) = {}
                 THEN "Invalid or expired refresh token" ELSE "none"
    IN /\ response' = [op |-> "refreshToken", status |-> IF err = "none" THEN 200 ELSE 401,
                       error |-> err, id |-> token.payload.authID, n |-> 0,
                       req |-> <<token.issuedFor>>]
       /\ UNCHANGED <<inflight, limiterVars, book, orders, payVars, socialVars, accountVars,
                      userApiVars>>

\* The middleware authenticateToken in front of a protected endpoint:
\* AuthService.verifyToken and AuthService.getProfile.
authenticateToken ==
  \E token \in tokensIssued :
    LET err == IF ~jwtVerify(token) THEN "Invalid or expired token"
               ELSE IF authsOf(token.payload.authID) = {} THEN "User not found"
               ELSE "none"
    IN /\ response' = [op |-> "authenticateToken",
                       status |-> IF err = "none" THEN 200 ELSE 401,
                       error |-> err, id |-> token.payload.authID, n |-> 0,
                       req |-> <<token.issuedFor>>]
       /\ UNCHANGED <<inflight, limiterVars, book, orders, payVars, socialVars, accountVars,
                      userApiVars>>

\* AuthService.resetPassword behind AuthController.resetPassword.
resetPassword ==
  \E token \in tokensIssued, newPassword \in Passwords :
    LET err == IF ~isStrongPassword(newPassword)
                    \/ ~jwtVerify(token)
                    \/ field(token.payload, "type") # "password_reset"
                    \/ authsOf(token.payload.authID) = {}
                 THEN "Invalid or expired reset token" ELSE "none"
    IN /\ authentication' =
            IF err = "none"
              THEN [i \in DOMAIN authentication |->
                      IF i \in authsOf(token.payload.authID)
                        THEN [authentication[i] EXCEPT !.pass = hash(newPassword)]
                        ELSE authentication[i]]
              ELSE authentication
       /\ response' = [op |-> "resetPassword", status |-> IF err = "none" THEN 200 ELSE 401,
                       error |-> err, id |-> token.payload.authID, n |-> 0,
                       req |-> <<token.issuedFor>>]
       /\ UNCHANGED <<inflight, limiterVars, book, orders, payVars, socialVars, user, author,
                      admin, cart, uuid, userApiVars>>

\* Time passes between requests.
tick ==
  /\ now < MaxTime
  /\ now' = now + 1
  /\ response' = noResponse
  /\ UNCHANGED <<limiterVars, inflight, userApiVars, book, orders, payments, socialVars, accountVars>>

Init ==
  /\ book = [b \in Books |-> [price |-> 1, stockQuantity |-> MaxStock, soldNumber |-> 0]]
  /\ orders = <<>>
  /\ hist = <<>>
  /\ payments = <<>>
  /\ now = 0
  /\ response = noResponse
  /\ reviews = <<>>
  /\ wishlists = <<>>
  /\ authentication = <<>>
  /\ user = <<>>
  /\ author = <<>>
  /\ admin = <<>>
  /\ cart = <<>>
  /\ uuid = 0
  /\ addresses = <<>>
  /\ cartBook = <<>>
  /\ inflight = [p \in Procs |-> idle]
  /\ attempts = [ip \in IPs |-> [has |-> FALSE, times |-> <<>>]]
  /\ admitted = [ip \in IPs |-> <<>>]

\* hist follows the step just taken: a new order records the Book table it
\* started from; every other order records the books whose stockQuantity or
\* soldNumber the step wrote.
histStep ==
  LET written == {b \in Books :
                    \/ book'[b].stockQuantity # book[b].stockQuantity
                    \/ book'[b].soldNumber # book[b].soldNumber}
      own == IF response'.op = "cancelOrder" THEN response'.id ELSE 0
      old == [i \in DOMAIN hist |->
                IF i = own THEN hist[i]
                ELSE [hist[i] EXCEPT !.touched = @ \cup written]]
  IN hist' = IF Len(orders') > Len(orders)
               THEN Append(old, [pre |-> book, touched |-> {}])
               ELSE old

\* Order operations, with the history kept.
Next ==
  \/ createOrder /\ histStep
  \/ cancelOrder /\ histStep
  \/ updateOrderStatus /\ histStep

Spec == Init /\ [][Next]_vars

\* Order placement and cancellation next to catalog price edits.
NextCatalog ==
  \/ createOrder /\ UNCHANGED hist
  \/ cancelOrder /\ UNCHANGED hist
  \/ updateBook /\ UNCHANGED hist

SpecCatalog == Init /\ [][NextCatalog]_vars

\* Orders and their payments.
NextPay ==
  \/ createOrderWith({"u1"}, {"a1"}, FewItemLists) /\ UNCHANGED hist
  \/ createPayment /\ UNCHANGED hist
  \/ updatePaymentStatus /\ UNCHANGED hist
  \/ processPayment /\ UNCHANGED hist
  \/ tick /\ UNCHANGED hist

SpecPay == Init /\ [][NextPay]_vars

\* The create operations on the tables that carry a uniqueness rule.
NextUnique ==
  \/ createOrderWith({"u1"}, {"a1"}, {<<[bookID |-> "b1", quantity |-> 1]>>})
       /\ UNCHANGED hist
  \/ createPayment /\ UNCHANGED hist
  \/ createReview /\ UNCHANGED hist
  \/ addToWishlist /\ UNCHANGED hist

SpecUnique == Init /\ [][NextUnique]_vars

\* Registration through either service.
NextAuth ==
  \/ register /\ UNCHANGED hist
  \/ AuthService_register /\ UNCHANGED hist

SpecAuth == Init /\ [][NextAuth]_vars

\* Registration and the administration of accounts.
NextProfile ==
  \/ AuthService_register /\ UNCHANGED hist
  \/ updateUserRole /\ UNCHANGED hist
  \/ deleteUser /\ UNCHANGED hist

SpecProfile == Init /\ [][NextProfile]_vars

\* Registration and login.
NextSession ==
  \/ AuthService_register /\ UNCHANGED hist
  \/ login /\ UNCHANGED hist

SpecSession == Init /\ [][NextSession]_vars

\* Accounts and their addresses.
NextAddress ==
  \/ AuthService_register /\ UNCHANGED hist
  \/ createUserAddress /\ UNCHANGED hist
  \/ updateUserAddress /\ UNCHANGED hist
  \/ deleteUserAddress /\ UNCHANGED hist

SpecAddress == Init /\ [][NextAddress]_vars

\* Status updates next to placement, cancellation and payment creation.
NextStatus ==
  \/ createOrderWith({"u1"}, {"a1"}, {<<[bookID |-> "b1", quantity |-> 1]>>})
       /\ UNCHANGED hist
  \/ cancelOrder /\ UNCHANGED hist
  \/ createPayment /\ UNCHANGED hist
  \/ updateOrderStatus /\ UNCHANGED hist

SpecStatus == Init /\ [][NextStatus]_vars

\* Orders of a registered user next to the edits of the user's addresses and
\* profile, cancellation, status updates and payments: at most
\* MaxSnapshotOrders orders, and addresses while ids up to MaxSnapshotUuid last.
NextSnapshot ==
  \/ AuthService_registerWith({"a@x.io"}, {"Passw0rd"}, {"user"}) /\ UNCHANGED hist
  \/ uuid < MaxSnapshotUuid /\ createUserAddress /\ UNCHANGED hist
  \/ updateUserAddress /\ UNCHANGED hist
  \/ deleteUserAddress /\ UNCHANGED hist
  \/ updateUserProfile /\ UNCHANGED hist
  \/ Len(orders) < MaxSnapshotOrders
       /\ createOrderRegistered({<<[bookID |-> "b1", quantity |-> 1]>>}) /\ UNCHANGED hist
  \/ cancelOrder /\ UNCHANGED hist
  \/ updateOrderStatus /\ UNCHANGED hist
  \/ createPayment /\ UNCHANGED hist
  \/ processPayment /\ UNCHANGED hist

SpecSnapshot == Init /\ [][NextSnapshot]_vars

\* Order placements that overlap, next to cancellation.
NextOrderRace ==
  \/ createOrderRead /\ UNCHANGED hist
  \/ createOrderWrite /\ UNCHANGED hist
  \/ cancelOrder /\ UNCHANGED hist

SpecOrderRace == Init /\ [][NextOrderRace]_vars

\* Cancellation next to the payment operations.
NextCancelPay ==
  \/ createOrderWith({"u1"}, {"a1"}, {<<[bookID |-> "b1", quantity |-> 1]>>})
       /\ UNCHANGED hist
  \/ cancelOrder /\ UNCHANGED hist
  \/ createPayment /\ UNCHANGED hist
  \/ updatePaymentStatus /\ UNCHANGED hist
  \/ processPayment /\ UNCHANGED hist

SpecCancelPay == Init /\ [][NextCancelPay]_vars

\* Cancellations that overlap.
NextCancelRace ==
  \/ createOrderWith({"u1"}, {"a1"}, FewItemLists) /\ UNCHANGED hist
  \/ cancelOrderRead /\ UNCHANGED hist
  \/ cancelOrderWrite /\ UNCHANGED hist

SpecCancelRace == Init /\ [][NextCancelRace]_vars

\* Payment processings that overlap.
NextPayRace ==
  \/ createOrderWith({"u1"}, {"a1"}, FewItemLists) /\ UNCHANGED hist
  \/ createPayment /\ UNCHANGED hist
  \/ processPaymentRead /\ UNCHANGED hist
  \/ processPaymentWrite /\ UNCHANGED hist

SpecPayRace == Init /\ [][NextPayRace]_vars

\* One authRateLimit instance, its sweep and the clock.
NextRateLimit ==
  \/ authRateLimit /\ UNCHANGED hist
  \/ sweep /\ UNCHANGED hist
  \/ elapse /\ UNCHANGED hist

SpecRateLimit == Init /\ [][NextRateLimit]_vars

\* Registration and the three operations that take a signed token.
NextToken ==
  \/ AuthService_register /\ UNCHANGED hist
  \/ refreshToken /\ UNCHANGED hist
  \/ authenticateToken /\ UNCHANGED hist
  \/ resetPassword /\ UNCHANGED hist
  \/ tick /\ UNCHANGED hist

SpecToken == Init /\ [][NextToken]_vars

\* The cart operations.
NextCart ==
  \/ getCartByUserId /\ UNCHANGED hist
  \/ addItemToCart /\ UNCHANGED hist
  \/ updateCartItem /\ UNCHANGED hist
  \/ removeItemFromCart /\ UNCHANGED hist
  \/ clearCart /\ UNCHANGED hist

SpecCart == Init /\ [][NextCart]_vars

\* ------------------------------------------------------------------ claims
RECURSIVE sumSubTotal(_)
sumSubTotal(lines) ==
  IF lines = <<>> THEN 0 ELSE Head(lines).subTotal + sumSubTotal(Tail(lines))

RECURSIVE quantityOf(_, _)
quantityOf(lines, b) ==
  IF lines = <<>> THEN 0
  ELSE (IF Head(lines).bookID = b THEN Head(lines).quantity ELSE 0)
         + quantityOf(Tail(lines), b)

\* C1: after every committed operation every book's stockQuantity is >= 0.
C1_StockNeverNegative == \A b \in Books : book[b].stockQuantity >= 0

\* C1 witness: an order was created that took the last copy of a book.
C1_Witness ==
  /\ response.op = "createOrder" /\ response.status = 201
  /\ \E b \in booksOf(orders[response.id]) : book[b].stockQuantity = 0

\* C2: a createOrder that fails, at whatever step, changes no Book row and
\* inserts no Order or line item.
C2_FailedCreateChangesNothing ==
  [][(response'.op = "createOrder" /\ response'.status # 201)
       => (book' = book /\ orders' = orders)]_vars

\* C2 witness: createOrder failed on a later item after an earlier item of
\* the same request had been decremented inside the transaction.
C2_Witness ==
  /\ response.op = "createOrder" /\ response.status # 201
  /\ response.n >= 1

\* C3: an order is created with totalAmount = sum of subTotal, subTotal =
\* priceAtTime * quantity and priceAtTime = the book's price at that moment,
\* and no later step changes an order's line items or totalAmount.
C3_OrderTotalIntegrity ==
  [][/\ \A i \in DOMAIN orders :
          /\ i \in DOMAIN orders'
          /\ orders'[i].books = orders[i].books
          /\ orders'[i].totalAmount = orders[i].totalAmount
     /\ \A i \in DOMAIN orders' \ DOMAIN orders :
          LET o == orders'[i] IN
            /\ o.totalAmount = sumSubTotal(o.books)
            /\ \A k \in DOMAIN o.books :
                 /\ o.books[k].subTotal = o.books[k].priceAtTime * o.books[k].quantity
                 /\ o.books[k].priceAtTime = book[o.books[k].bookID].price]_vars

\* C3 witness: an order of two copies whose book has since changed price.
C3_Witness ==
  \E i \in DOMAIN orders : \E k \in DOMAIN orders[i].books :
    LET l == orders[i].books[k] IN
      /\ l.quantity >= 2
      /\ l.priceAtTime # book[l.bookID].price
      /\ response.op = "updateBook"

\* C4: right after a successful cancelOrder, every book of the order that
\* no other order wrote since the order was created has
\* the stockQuantity and soldNumber it had just before the order was created.
C4_CancelRestoresPreOrderValues ==
  (response.op = "cancelOrder" /\ response.status = 200)
    => \A b \in booksOf(orders[response.id]) \ hist[response.id].touched :
         /\ book[b].stockQuantity = hist[response.id].pre[b].stockQuantity
         /\ book[b].soldNumber = hist[response.id].pre[b].soldNumber

\* C5: cancelOrder answers 404 for an unknown order and 400 for an order
\* that is not pending, changing nothing; otherwise either nothing changes
\* or the order becomes canceled and every line item is restored.
C5_CancelOrderErrorsAndAtomicity ==
  [][response'.op = "cancelOrder" =>
       LET id == response'.id IN
         /\ id \notin DOMAIN orders => response'.status = 404
         /\ (id \in DOMAIN orders /\ orders[id].status # "pending")
              => response'.status = 400
         /\ response'.status # 200 => (book' = book /\ orders' = orders)
         /\ response'.status = 200 =>
              /\ orders' = [orders EXCEPT ![id].status = "canceled"]
              /\ \A b \in Books :
                   /\ book'[b].stockQuantity =
                        book[b].stockQuantity + quantityOf(orders[id].books, b)
                   /\ book'[b].soldNumber =
                        book[b].soldNumber - quantityOf(orders[id].books, b)
                   /\ book'[b].price = book[b].price]_vars

\* C5 witness: cancelOrder was refused for an order that is already canceled.
C5_Witness ==
  /\ response.op = "cancelOrder" /\ response.status = 400
  /\ orders[response.id].status = "canceled"

\* C7: createPayment with an amount other than the order's totalAmount
\* creates no Payment row and, the order existing and having no payment, is
\* answered 400; an accepted payment is inserted in status processing.
C7_PaymentAmountMustMatch ==
  [][response'.op = "createPayment" =>
       LET orderID == response'.req[1]
           amount == response'.req[2]
       IN /\ (orderID \in DOMAIN orders /\ amount # orders[orderID].totalAmount)
               => (payments' = payments /\ response'.status \in {400, 409})
          /\ (/\ orderID \in DOMAIN orders
              /\ paymentsOf(orderID) = {}
              /\ amount # orders[orderID].totalAmount) => response'.status = 400
          /\ response'.status = 201 =>
               /\ Len(payments') = Len(payments) + 1
               /\ payments'[Len(payments')].status = "processing"
               /\ payments'[Len(payments')].paidAt = <<>>
               /\ payments'[Len(payments')].orderID = orderID
               /\ payments'[Len(payments')].amount = orders[orderID].totalAmount
          /\ response'.status # 201 => payments' = payments]_vars

\* C7 witness: a payment above the order's total was refused.
C7_Witness ==
  /\ response.op = "createPayment" /\ response.status = 400
  /\ response.req[1] \in DOMAIN orders
  /\ response.req[2] > orders[response.req[1]].totalAmount

\* C8: an updatePaymentStatus that succeeds with target paid stamps paidAt
\* with the current time and sets the owning order to completed; with any
\* other target it leaves every order as it was.
C8_PaidCompletesOrder ==
  [][(response'.op = "updatePaymentStatus" /\ response'.status = 200) =>
       LET id == response'.id IN
         /\ payments'[id].status = "paid" =>
              /\ payments'[id].paidAt = <<now>>
              /\ orders' = [orders EXCEPT ![payments[id].orderID].status = "completed"]
         /\ payments'[id].status # "paid" => orders' = orders]_vars

\* C8 witness: a payment was moved to paid after the clock had advanced and
\* its order, pending before, is completed.
C8_Witness ==
  /\ response.op = "updatePaymentStatus" /\ response.status = 200
  /\ payments[response.id].status = "paid"
  /\ payments[response.id].paidAt = <<now>> /\ now >= 1
  /\ orders[payments[response.id].orderID].status = "completed"

\* C9: processPayment on a paid or failed payment is answered 400 and
\* changes no payment and no order; when the outcome is failure it sets the
\* payment's status to failed and changes nothing else: paidAt is left as it
\* was (unset stays unset) and no order and no book changes.
C9_ProcessOnlyWhenProcessing ==
  [][response'.op = "processPayment" =>
       LET id == response'.id IN
         /\ (id \in DOMAIN payments /\ payments[id].status \in {"paid", "failed"})
              => /\ response'.status = 400
                 /\ payments' = payments /\ orders' = orders
         /\ (id \in DOMAIN payments /\ payments[id].status = "processing"
                /\ payments'[id].status = "failed")
              => /\ payments' = [payments EXCEPT ![id].status = "failed"]
                 /\ payments'[id].paidAt = payments[id].paidAt
                 /\ payments[id].paidAt = <<>> => payments'[id].paidAt = <<>>
                 /\ orders' = orders /\ book' = book]_vars

\* C9 witness: processPayment was refused for a payment that had failed.
C9_Witness ==
  /\ response.op = "processPayment" /\ response.status = 400
  /\ payments[response.id].status = "failed"

\* The number of rows of a table with the given (user, book) pair.
RECURSIVE keyCount(_, _, _)
keyCount(rows, userID, bookID) ==
  IF rows = <<>> THEN 0
  ELSE (IF Head(rows).userID = userID /\ Head(rows).bookID = bookID THEN 1 ELSE 0)
         + keyCount(Tail(rows), userID, bookID)

\* C6: a request to create a Review or a Wishlist entry for a (user, book)
\* pair that has one, or a Payment for an order that has one, is answered
\* 409 and leaves the table as it was; no create operation changes a row
\* that exists; and afterwards no two Reviews and no two Wishlist entries
\* share a pair and no two Payments share an order.
C6_OneRowPerKey ==
  [][/\ (/\ response'.op = "createReview" /\ response'.req[3] # 0
         /\ keyCount(reviews, response'.req[1], response'.req[2]) >= 1)
          => (response'.status = 409 /\ reviews' = reviews)
     /\ (/\ response'.op = "addToWishlist"
         /\ keyCount(wishlists, response'.req[1], response'.req[2]) >= 1)
          => (response'.status = 409 /\ wishlists' = wishlists)
     /\ (/\ response'.op = "createPayment" /\ response'.req[2] # 0
         /\ response'.req[3] \in PaymentMethod
         /\ \E i \in DOMAIN payments : payments[i].orderID = response'.req[1])
          => (response'.status = 409 /\ payments' = payments)
     /\ \A i \in DOMAIN reviews : i \in DOMAIN reviews' /\ reviews'[i] = reviews[i]
     /\ \A i \in DOMAIN wishlists : i \in DOMAIN wishlists' /\ wishlists'[i] = wishlists[i]
     /\ \A i \in DOMAIN payments : i \in DOMAIN payments' /\ payments'[i] = payments[i]
     /\ \A i \in DOMAIN reviews' :
          keyCount(reviews', reviews'[i].userID, reviews'[i].bookID) = 1
     /\ \A i \in DOMAIN wishlists' :
          keyCount(wishlists', wishlists'[i].userID, wishlists'[i].bookID) = 1
     /\ \A i, j \in DOMAIN payments' :
          payments'[i].orderID = payments'[j].orderID => i = j]_vars

\* C6 witness: a second review for a pair was refused as a conflict although
\* its rating differs from the first one's, which is still there.
C6_Witness ==
  /\ response.op = "createReview" /\ response.status = 409
  /\ \E i \in DOMAIN reviews :
       /\ reviews[i].userID = response.req[1]
       /\ reviews[i].bookID = response.req[2]
       /\ reviews[i].rating # response.req[3]

\* C10: a register request with a valid role for an email that already has
\* an Authentication row is answered 409 (conflict) and exactly one
\* Authentication row with that email exists afterwards.
C10_DuplicateRegistrationConflict ==
  [][(/\ response'.op = "register" /\ response'.req[2] \in Role
      /\ \E i \in DOMAIN authentication : authentication[i].email = response'.req[1])
       => /\ response'.status = 409
          /\ Cardinality({i \in DOMAIN authentication' :
                            authentication'[i].email = response'.req[1]}) = 1]_vars

\* C11: a registration that is answered 201 has added exactly the
\* Authentication row and the one profile row its role names, with that
\* row's authID, and for role user a Cart whose userID is the new User's;
\* a registration that is not answered 201 has added no row at all.
C11_RegisterAllOrNothing ==
  [][response'.op \in {"register", "AuthService.register"} =>
       IF response'.status = 201
         THEN /\ Len(authentication') = Len(authentication) + 1
              /\ LET a == authentication'[Len(authentication')]
                     newUser == IF a.role = "user" THEN 1 ELSE 0
                     newAuthor == IF a.role = "author" THEN 1 ELSE 0
                     newAdmin == IF a.role = "admin" THEN 1 ELSE 0
                 IN /\ a.email = response'.req[1] /\ a.role = response'.req[2]
                    /\ Len(user') = Len(user) + newUser
                    /\ Len(author') = Len(author) + newAuthor
                    /\ Len(admin') = Len(admin) + newAdmin
                    /\ Len(cart') = Len(cart) + newUser
                    /\ a.role = "user" =>
                         /\ user'[Len(user')].authID = a.authID
                         /\ cart'[Len(cart')].userID = user'[Len(user')].userID
                    /\ a.role = "author" => author'[Len(author')].authID = a.authID
                    /\ a.role = "admin" => admin'[Len(admin')].authID = a.authID
         ELSE UNCHANGED <<authentication, user, author, admin, cart>>]_vars

\* The number of rows of a profile table that reference the account authID.
profileCount(rows, authID) == Cardinality({i \in DOMAIN rows : rows[i].authID = authID})

\* C12: every Authentication row has exactly one profile row among User,
\* Author and Admin, and it is in the table its role names.
C12_OneProfilePerAccount ==
  \A i \in DOMAIN authentication :
    LET a == authentication[i] IN
      /\ profileCount(user, a.authID) = (IF a.role = "user" THEN 1 ELSE 0)
      /\ profileCount(author, a.authID) = (IF a.role = "author" THEN 1 ELSE 0)
      /\ profileCount(admin, a.authID) = (IF a.role = "admin" THEN 1 ELSE 0)

\* The keys of a response's user object whose values are objects.
ObjectKeys == {"auth", "user", "author", "admin"}

\* The object has a password hash at its top level or one level down.
includesPass(data) ==
  \/ "pass" \in DOMAIN data
  \/ \E k \in DOMAIN data \cap ObjectKeys : "pass" \in DOMAIN data[k]

\* C13: the user object in the response of a successful register or login
\* holds no password hash, at its top level or in a nested object.
C13_NoPasswordHashInResponse ==
  (response.op \in {"AuthService.register", "login"} /\ response.status \in {200, 201})
    => ~includesPass(response.body.user)

\* C14: an update or delete of an existing address that the caller neither
\* owns nor, being admin, may touch anyway changes no address and, unless
\* the request is refused as malformed (422), is answered 403; a caller who
\* is admin or owns the address is not answered 403.
C14_OnlyOwnerOrAdmin ==
  [][response'.op \in {"updateUserAddress", "deleteUserAddress"} =>
       \A c \in DOMAIN authentication, i \in DOMAIN addresses :
         (/\ authentication[c].authID = response'.req[1]
          /\ addresses[i].addressID = response'.req[2])
           => IF requireOwnership(authentication[c], addresses[i].userID)
                THEN response'.status # 403
                ELSE /\ addresses' = addresses
                     /\ response'.status # 422 => response'.status = 403]_vars

\* The cartIDs of the Cart rows of a user in a Cart table.
cartIDsOf(c, userID) == {c[i].cartID : i \in {j \in DOMAIN c : c[j].userID = userID}}

\* The number of Cart rows of a user in a Cart table.
cartRows(c, userID) == Cardinality({j \in DOMAIN c : c[j].userID = userID})

\* C15: get-or-create is idempotent.  No cart operation leaves a user with
\* two Cart rows or changes the cartID of a user who has a cart, and a
\* successful getCart leaves the user exactly one Cart row, whose cartID it
\* returns: a second call returns the cartID of the first.
C15_OneCartPerUser ==
  [][\A u \in UserIDs :
       /\ cartRows(cart', u) <= 1
       /\ cartIDsOf(cart, u) # {} => cartIDsOf(cart', u) = cartIDsOf(cart, u)
       /\ (response'.op = "getCart" /\ response'.status = 200 /\ response'.req[1] = u)
            => /\ cartRows(cart', u) = 1
               /\ cartIDsOf(cart', u) = {response'.id}]_vars

\* getCart answered with the cart an earlier addToCart created and filled.
C15_Witness ==
  /\ response.op = "getCart" /\ response.status = 200
  /\ \E i \in DOMAIN cart, k \in DOMAIN cartBook :
       /\ cart[i].userID = response.req[1]
       /\ cart[i].cartID = response.id
       /\ cartBook[k].cartID = response.id

\* C16: a cart holds at most one CartItem per (cart, book), and every
\* CartItem has a quantity greater than zero.
C16_CartItemsUniqueAndPositive ==
  \A i, j \in DOMAIN cartBook :
    /\ cartBook[i].quantity > 0
    /\ (cartBook[i].cartID = cartBook[j].cartID /\ cartBook[i].bookID = cartBook[j].bookID)
         => i = j

\* C17: removeItem and clearCart are idempotent deletes.  Repeating a
\* successful removeFromCart or clearCart succeeds again and leaves the cart
\* as it was, and clearCart fails only when the user has no cart.
C17_IdempotentDeletes ==
  [][/\ (/\ response.op \in {"removeFromCart", "clearCart"}
         /\ response.status = 200
         /\ response'.op = response.op
         /\ response'.req = response.req)
          => (response'.status = 200 /\ cartBook' = cartBook /\ cart' = cart)
     /\ (response'.op = "clearCart" /\ response'.status # 200)
          => cartIDsOf(cart, response'.req[1]) = {}]_vars

\* C18: an order's status only moves from pending to completed or from
\* pending to canceled, and no order is ever in status processing.
C18_StatusMovesFromPendingOnly ==
  [][\A id \in DOMAIN orders :
       /\ orders'[id].status # "processing"
       /\ orders'[id].status # orders[id].status
            => /\ orders[id].status = "pending"
               /\ orders'[id].status \in {"completed", "canceled"}]_vars

\* C19: updateOrderStatus on an existing order writes the requested status
\* over the current one, whatever it is, and changes nothing else: no
\* other field of the order, no other order, no book, no payment.  It fails
\* with Order not found, changing nothing, only when the order does not exist.
C19_StatusOverwriteOnly ==
  [][(response'.op = "updateOrderStatus" /\ response'.req[1] \in OrderStatus) =>
       LET id == response'.id IN
         /\ book' = book /\ payments' = payments
         /\ IF id \in DOMAIN orders
              THEN /\ response'.status = 200
                   /\ DOMAIN orders' = DOMAIN orders
                   /\ orders'[id] = [orders[id] EXCEPT !.status = response'.req[1]]
                   /\ \A k \in DOMAIN orders : k # id => orders'[k] = orders[k]
              ELSE /\ response'.status = 404
                   /\ response'.error = "Order not found"
                   /\ orders' = orders]_vars

\* A canceled order, its stock back on the shelf and its payment on file,
\* stands pending again after updateOrderStatus.
C19_Witness ==
  /\ response.op = "updateOrderStatus" /\ response.status = 200
  /\ response.req = <<"pending">>
  /\ Len(orders) = 1 /\ response.id = 1
  /\ orders[1].status = "pending"
  /\ orders[1].books # <<>>
  /\ \A b \in Books : book[b].stockQuantity = MaxStock
  /\ paymentsOf(1) # {}

\* C20: createOrder with an item of an existing book whose quantity is zero
\* or less is refused as invalid, whatever the stock: the request is
\* answered 400 and no order is created.
C20_NonPositiveQuantityRejected ==
  [][(response'.op = "createOrder" /\ response'.error = "Invalid quantity")
       => (response'.status = 400 /\ orders' = orders /\ book' = book)]_vars

\* C21: an order's addressSnapshot and phoneSnapshot are fixed at creation.
\* No step changes them in an order that exists: not an address update or
\* delete, a profile update, a status change, a cancellation or a payment.
C21_SnapshotsFixed ==
  [][\A id \in DOMAIN orders :
       /\ id \in DOMAIN orders'
       /\ orders'[id].addressSnapshot = orders[id].addressSnapshot
       /\ orders'[id].phoneSnapshot = orders[id].phoneSnapshot]_vars

\* An order still carries the city of its address as it was when the order
\* was placed, after that address was edited or deleted.
C21_Witness ==
  /\ response.op \in {"updateUserAddress", "deleteUserAddress"}
  /\ response.status = 200
  /\ \E id \in DOMAIN orders :
       /\ orders[id].addressSnapshot = <<"w1", ", ", "Ha Noi">>
       /\ \A i \in DOMAIN addresses :
            addressSnapshotOf(addresses[i]) # orders[id].addressSnapshot

\* The copies of book b in the orders that are not canceled.
copiesOrdered(b) ==
  LET RECURSIVE upTo(_)
      upTo(n) == IF n = 0 THEN 0
                 ELSE (IF orders[n].status # "canceled"
                         THEN quantityOf(orders[n].books, b) ELSE 0) + upTo(n - 1)
  IN upTo(Len(orders))

\* C22: a createOrder that commits writes, for every book it orders, the
\* stockQuantity and soldNumber it computed from the rows it read, whatever
\* the rows hold by then; the only thing that stops a commit whose rows were
\* written meanwhile is the database refusing it.  So two placements that
\* overlap on a book can both pass the stock check and one decrement is lost.
C22_AbsoluteStockWrite ==
  [][\A p \in Procs :
       (inflight[p].op = "createOrder" /\ inflight'[p] = idle) =>
         LET t == inflight[p]
             touched == booksOf(t.tx.order[1])
         IN IF response'.status = 201
              THEN /\ Len(orders') = Len(orders) + 1
                   /\ \A b \in touched :
                        /\ book'[b].stockQuantity = t.tx.book[b].stockQuantity
                        /\ book'[b].soldNumber = t.tx.book[b].soldNumber
              ELSE /\ \E b \in touched : book[b] # t.read[b]
                   /\ book' = book /\ orders' = orders]_vars

\* Two placements overlapped and both committed: the orders that stand hold
\* more copies of b1 than were in stock, and one decrement is lost.
C22_Witness ==
  /\ \A p \in Procs : inflight[p] = idle
  /\ copiesOrdered("b1") > MaxStock
  /\ book["b1"].stockQuantity + copiesOrdered("b1") > MaxStock
  /\ book["b1"].stockQuantity >= 0

\* C23: with no catalog edits, for every book stockQuantity is its initial
\* value less the copies in the orders that are not canceled, soldNumber is
\* its initial value plus those copies, and soldNumber never drops below it.
C23_StockConservation ==
  \A b \in Books :
    /\ book[b].stockQuantity = MaxStock - copiesOrdered(b)
    /\ book[b].soldNumber = copiesOrdered(b)
    /\ book[b].soldNumber >= 0

\* C24: once cancelOrder has canceled an order, no payment operation changes
\* its status: createPayment, updatePaymentStatus and processPayment leave a
\* canceled order canceled.
C24_CanceledStaysCanceled ==
  [][response'.op \in {"createPayment", "updatePaymentStatus", "processPayment"} =>
       \A id \in DOMAIN orders :
         orders[id].status = "canceled" => orders'[id].status = "canceled"]_vars

\* C25: when two cancelOrder requests for the same pending order overlap,
\* its lines are added back to stock and taken off soldNumber exactly once:
\* a cancelOrder in flight does not commit its restorations to an order
\* that another request has canceled meanwhile.
C25_RestoredOnce ==
  [][\A p \in Procs :
       (/\ inflight[p].op = "cancelOrder" /\ inflight'[p] = idle
        /\ orders[inflight[p].id].status = "canceled")
         => book' = book]_vars

\* C26: when two processPayment calls for the same payment overlap, at most
\* one of them changes the payment: a call in flight writes only a payment
\* that is still processing, and no payment is ever failed while the other
\* call has set its order to completed.
C26_ProcessedOnce ==
  [][/\ \A p \in Procs :
          (inflight[p].op = "processPayment" /\ payments' # payments)
            => payments[inflight[p].id].status = "processing"
     /\ \A i \in DOMAIN payments' :
          ~(/\ payments'[i].status = "failed"
            /\ orders'[payments'[i].orderID].status = "completed")]_vars

\* C27: a payment has paidAt set if and only if its status is paid.
C27_PaidAtIffPaid ==
  \A i \in DOMAIN payments : (payments[i].paidAt # <<>>) <=> (payments[i].status = "paid")

\* C28: after a successful addItem the quantity of the CartItem, the
\* quantity it had plus the quantity added, is at most the book's
\* stockQuantity at that moment.
C28_CartQuantityWithinStock ==
  [][(response'.op = "addToCart" /\ response'.status = 200) =>
       \A i \in DOMAIN cartBook' :
         (cartBook'[i].cartID = response'.id /\ cartBook'[i].bookID = response'.req[2])
           => cartBook'[i].quantity <= book'[cartBook'[i].bookID].stockQuantity]_vars

\* The requests of ip let through in the window that ends at time t.
admittedIn(log, ip, t) ==
  Len(SelectSeq(log[ip], LAMBDA time : time > t - WindowLen /\ time <= t))

\* C29: per client ip, an authRateLimit(n) instance lets through at most n
\* requests in any window of 60 seconds.  Every decision follows from the
\* requests let through before: a request is refused exactly when n of them
\* lie in the window that ends now, so a refused request is not recorded, a
\* client whose requests are all older than the window is let through again,
\* and the sweep changes no decision; the sweep deletes only the keys of ips
\* with no request let through in the last 60 seconds.
C29_RateLimitWindow ==
  [][/\ \A ip \in IPs, t \in 0..MaxClock :
          admittedIn(admitted', ip, t) <= requestsPerMinute
     /\ response'.op = "authRateLimit" =>
          LET ip == response'.req[1] IN
            /\ (response'.status = 503)
                 <=> (admittedIn(admitted, ip, now) >= requestsPerMinute)
            /\ response'.status = 503 =>
                 /\ admitted' = admitted
                 /\ attempts'[ip].times = recentAttempts(attempts[ip].times)
     /\ \A ip \in IPs :
          (attempts[ip].has /\ ~attempts'[ip].has) => admittedIn(admitted, ip, now) = 0]_vars

\* A client that used up its limit and was swept from the Map after a silent
\* window is let through again.
C29_Witness ==
  /\ response.op = "authRateLimit" /\ response.status = 200
  /\ response.req = <<"ip1">>
  /\ Len(admitted["ip1"]) = requestsPerMinute + 1
  /\ attempts["ip1"].times = <<now>>
  /\ ~attempts["ip2"].has /\ Len(admitted["ip2"]) > 0

\* C30: a signed token is accepted only by the operation it was issued for:
\* refreshToken accepts refresh tokens only, the protected endpoints access
\* tokens only, and resetPassword password-reset tokens only.
C30_TokenAcceptedOnlyForItsUse ==
  response.status = 200 =>
    /\ response.op = "refreshToken" => response.req = <<"refresh">>
    /\ response.op = "authenticateToken" => response.req = <<"access">>
    /\ response.op = "resetPassword" => response.req = <<"reset">>
====
